---- MODULE Spec2Model ----
(***************************************************************************)
(* Two qubits with exchange interaction (2-qubitEvolution.ipynb).          *)
(*                                                                         *)
(* The notebook is a straight-line pipeline of cells: build the two-spin   *)
(* Pauli operators, assemble the exchange Hamiltonian, form the initial    *)
(* product state, evolve it over a time grid with a matrix exponential,    *)
(* take the six expectation-value series and hand them to the Bloch plot.  *)
(*                                                                         *)
(* numpy's float64 values are modelled as fixed-point numbers: the integer *)
(* n stands for n / ONE, and every product and quotient is rounded to the  *)
(* nearest representable value.  Complex numbers are pairs <<re, im>>,     *)
(* vectors are tuples of complex numbers and matrices tuples of rows.      *)
(* Equalities between computed reals are stated up to TOL.                 *)
(***************************************************************************)
EXTENDS Integers, Sequences, FiniteSets

VARIABLES pc, hbar, sigma, J, H, psi0, time, psiT, series, plotted, err, slots

vars == <<pc, hbar, sigma, J, H, psi0, time, psiT, series, plotted, err, slots>>

(***************************************************************************)
(* Bounds of the model.                                                    *)
(***************************************************************************)
\* length of the time grid (101 in the notebook)
NSamples == 5
\* fixed-point radix: ONE = K * K
K == 1000
\* tolerance on computed reals, in units of 1 / ONE
TOL == 50
\* degree of the polynomial approximant in the matrix exponential
ExpmDegree == 8
\* iterations of Newton's method for the square root
SqrtIters == 6

ONE == K * K

(***************************************************************************)
(* Real arithmetic.                                                        *)
(***************************************************************************)
Abs(a) == IF a < 0 THEN -a ELSE a

Sgn(a) == IF a < 0 THEN -1 ELSE 1

\* a / n for a positive integer n, rounded to nearest
RDiv(a, n) == Sgn(a) * ((Abs(a) + (n \div 2)) \div n)

\* float product a * b
FMul(a, b) ==
    LET x == Abs(a)
        y == Abs(b)
        xh == x \div K
        xl == x % K
        yh == y \div K
        yl == y % K
    IN  Sgn(a) * Sgn(b) * (xh * yh + RDiv(xh * yl + xl * yh + RDiv(xl * yl, K), K))

\* float quotient a / b, b # 0
FDiv(a, b) ==
    LET x == Abs(a)
        y == Abs(b)
        q0 == x \div y
        r0 == x % y
        q1 == (r0 * K) \div y
        r1 == (r0 * K) % y
        q2 == RDiv(r1 * K, y)
    IN  Sgn(a) * Sgn(b) * (q0 * ONE + q1 * K + q2)

RECURSIVE Newton(_, _, _)
Newton(a, x, n) == IF n = 0 THEN x ELSE Newton(a, (x + FDiv(a, x)) \div 2, n - 1)

\* np.sqrt
Sqrt(a) == IF a = 0 THEN 0 ELSE Newton(a, a, SqrtIters)

\* np.pi
Pi == (355 * ONE) \div 113

(***************************************************************************)
(* Complex arithmetic.                                                     *)
(***************************************************************************)
C(re, im) == <<re, im>>

Re(z) == z[1]

Im(z) == z[2]

CZero == C(0, 0)

COne == C(ONE, 0)

CAdd(z, w) == C(z[1] + w[1], z[2] + w[2])

CMul(z, w) == C(FMul(z[1], w[1]) - FMul(z[2], w[2]), FMul(z[1], w[2]) + FMul(z[2], w[1]))

Conj(z) == C(z[1], -z[2])

\* scalar * z, z * scalar and z / scalar for a real scalar
CScale(a, z) == C(FMul(a, z[1]), FMul(a, z[2]))

CDivReal(z, a) == C(FDiv(z[1], a), FDiv(z[2], a))

CDivInt(z, n) == C(RDiv(z[1], n), RDiv(z[2], n))

(***************************************************************************)
(* Vectors and matrices.                                                   *)
(***************************************************************************)
Vec4(F(_)) == <<F(1), F(2), F(3), F(4)>>

Mat4(F(_, _)) ==
    << <<F(1, 1), F(1, 2), F(1, 3), F(1, 4)>>,
       <<F(2, 1), F(2, 2), F(2, 3), F(2, 4)>>,
       <<F(3, 1), F(3, 2), F(3, 3), F(3, 4)>>,
       <<F(4, 1), F(4, 2), F(4, 3), F(4, 4)>> >>

Sum4(F(_)) == CAdd(CAdd(CAdd(F(1), F(2)), F(3)), F(4))

Eye4 == Mat4(LAMBDA i, j : IF i = j THEN COne ELSE CZero)

Zero4 == Mat4(LAMBDA i, j : CZero)

\* A @ B for two matrices
MatMul(A, B) == Mat4(LAMBDA i, j : Sum4(LAMBDA k : CMul(A[i][k], B[k][j])))

\* A @ v for a matrix and a 1-D array
MatVec(A, v) == Vec4(LAMBDA i : Sum4(LAMBDA k : CMul(A[i][k], v[k])))

\* v @ A for a 1-D array and a matrix
VecMat(v, A) == Vec4(LAMBDA j : Sum4(LAMBDA k : CMul(v[k], A[k][j])))

\* v @ w for two 1-D arrays (no conjugation)
Dot(v, w) == Sum4(LAMBDA k : CMul(v[k], w[k]))

MatAdd(A, B) == Mat4(LAMBDA i, j : CAdd(A[i][j], B[i][j]))

MatScale(a, A) == Mat4(LAMBDA i, j : CScale(a, A[i][j]))

MatDivReal(A, a) == Mat4(LAMBDA i, j : CDivReal(A[i][j], a))

MatDivInt(A, n) == Mat4(LAMBDA i, j : CDivInt(A[i][j], n))

\* the factor -1j left out
MatTimesOne(A) == A

\* -1j * A
MatTimesMinusI(A) == Mat4(LAMBDA i, j : C(Im(A[i][j]), -Re(A[i][j])))

VecConj(v) == Vec4(LAMBDA i : Conj(v[i]))

\* index of the block, and index within the block, of row or column r
Blk(r) == ((r - 1) \div 2) + 1

Off(r) == ((r - 1) % 2) + 1

\* np.kron of two 2x2 arrays: block (i, j) of the result is A[i][j] * B
Kron(A, B) == Mat4(LAMBDA r, c : CMul(A[Blk(r)][Blk(c)], B[Off(r)][Off(c)]))

\* np.kron of two 1-D arrays of length 2
KronVec(u, v) == Vec4(LAMBDA r : CMul(u[Blk(r)], v[Off(r)]))

(***************************************************************************)
(* scipy.linalg.expm: scaling and squaring around a polynomial approximant.*)
(***************************************************************************)
ColSum(A, j) ==
    Abs(Re(A[1][j])) + Abs(Im(A[1][j])) + Abs(Re(A[2][j])) + Abs(Im(A[2][j]))
    + Abs(Re(A[3][j])) + Abs(Im(A[3][j])) + Abs(Re(A[4][j])) + Abs(Im(A[4][j]))

Max(a, b) == IF a >= b THEN a ELSE b

\* an upper bound of the 1-norm of A
OneNorm(A) == Max(Max(ColSum(A, 1), ColSum(A, 2)), Max(ColSum(A, 3), ColSum(A, 4)))

RECURSIVE Squarings(_)
\* the least s with norm / 2^s <= 1/2
Squarings(norm) == IF 2 * norm <= ONE THEN 0 ELSE 1 + Squarings((norm + 1) \div 2)

RECURSIVE Pow2(_)
Pow2(s) == IF s = 0 THEN 1 ELSE 2 * Pow2(s - 1)

RECURSIVE Horner(_, _)
\* I + B/k (I + B/(k+1) (I + ... B/ExpmDegree))
Horner(B, k) ==
    IF k > ExpmDegree THEN Eye4
    ELSE CHOOSE U \in {MatAdd(Eye4, MatDivInt(MatMul(B, T), k)) : T \in {Horner(B, k + 1)}} : TRUE

RECURSIVE SquareTimes(_, _)
SquareTimes(U, s) ==
    IF s = 0 THEN U
    ELSE CHOOSE R \in {SquareTimes(V, s - 1) : V \in {MatMul(U, U)}} : TRUE

Expm(A) ==
    LET s == Squarings(OneNorm(A))
    IN  CHOOSE R \in {SquareTimes(Horner(B, 1), s) : B \in {MatDivInt(A, Pow2(s))}} : TRUE

(***************************************************************************)
(* The notebook's values.                                                  *)
(***************************************************************************)
Real(a) == C(a * ONE, 0)

Imag(b) == C(0, b * ONE)

identity == << <<Real(1), Real(0)>>, <<Real(0), Real(1)>> >>

PauliZ == << <<Real(1), Real(0)>>, <<Real(0), Real(-1)>> >>

PauliX == << <<Real(0), Real(1)>>, <<Real(1), Real(0)>> >>

PauliY == << <<Real(0), Imag(-1)>>, <<Imag(1), Real(0)>> >>

Pauli(a) == CASE a = "x" -> PauliX [] a = "y" -> PauliY [] a = "z" -> PauliZ

Axes == {"x", "y", "z"}

\* the operands of np.kron exchanged
Sigma1Swapped(a) == Kron(identity, Pauli(a))

\* sigma1a = np.kron(P, identity)
Sigma1(a) == Kron(Pauli(a), identity)

\* a sign slip in the y matrix: [[0,-1j],[-1j,0]]
Sigma2SignSlip(a) ==
    Kron(identity, IF a = "y" THEN << <<Real(0), Imag(-1)>>, <<Imag(-1), Real(0)>> >> ELSE Pauli(a))

\* sigma2a = np.kron(identity, P)
Sigma2(a) == Kron(identity, Pauli(a))

Unset == <<>>

\* the coupling constants the pipeline is run with: off, half and the reference 2 pi
JValues == {0, Pi, 2 * Pi}

\* scipy.constants.hbar, in three systems of units
HbarValues == {ONE \div 4, ONE \div 2, ONE}

\* the coupling constant left out: hbar/4 * (...)
HamiltonianNoJ(j, h, sg) ==
    MatScale(RDiv(h, 4),
             MatAdd(MatAdd(MatMul(sg.s1["x"], sg.s2["x"]), MatMul(sg.s1["y"], sg.s2["y"])),
                    MatMul(sg.s1["z"], sg.s2["z"])))

\* the prefactor J * hbar/2 of the spin form taken for the Pauli form
HamiltonianHalf(j, h, sg) ==
    MatScale(RDiv(FMul(j, h), 2),
             MatAdd(MatAdd(MatMul(sg.s1["x"], sg.s2["x"]), MatMul(sg.s1["y"], sg.s2["y"])),
                    MatMul(sg.s1["z"], sg.s2["z"])))

\* H = J * hbar/4 * (sigma1X@sigma2X + sigma1Y@sigma2Y + sigma1Z@sigma2Z)
Hamiltonian(j, h, sg) ==
    MatScale(RDiv(FMul(j, h), 4),
             MatAdd(MatAdd(MatMul(sg.s1["x"], sg.s2["x"]), MatMul(sg.s1["y"], sg.s2["y"])),
                    MatMul(sg.s1["z"], sg.s2["z"])))

psi1 == <<Real(1), Real(0)>>

\* np.array([1,1])/np.sqrt(2)
psi2 == <<CDivReal(Real(1), Sqrt(2 * ONE)), CDivReal(Real(1), Sqrt(2 * ONE))>>

\* np.linspace(0, 0.5, NSamples): multiples of the step, the last one set to the stop
Stop == ONE \div 2

\* the grid started one step late
LinspaceNoStart(n) ==
    LET step == RDiv(Stop, n - 1)
    IN  [i \in 1..n |-> IF i = n THEN Stop ELSE i * step]

Linspace(n) ==
    LET step == RDiv(Stop, n - 1)
    IN  [i \in 1..n |-> IF i = n THEN Stop ELSE (i - 1) * step]

\* -1j*H*t/hbar
Exponent(t) == MatDivReal(MatScale(t, MatTimesMinusI(H)), hbar)

\* expm(-1j*H*t/hbar)
Propagator(t) == Expm(Exponent(t))

\* the new entry put in front of the list
LoopBodyPrepend(traj, t) == <<MatVec(Propagator(t), psi0)>> \o traj

\* the new entry stepped from the last one instead of from psi0
LoopBodyIncremental(traj, t) ==
    Append(traj, IF traj = <<>> THEN MatVec(Propagator(t), psi0)
                 ELSE MatVec(Propagator(t - time[Len(traj)]), traj[Len(traj)]))

\* the body of the loop: psiT.append(expm(-1j*H*t/hbar) @ psi0)
LoopBody(traj, t) == Append(traj, MatVec(Propagator(t), psi0))

\* the conjugation left out: p.T @ op @ p
ExpectNoConj(p, op) == Dot(VecMat(p, op), p)

\* p.conj().T @ op @ p
Expect(p, op) == Dot(VecMat(VecConj(p), op), p)

\* [(p.conj().T @ op @ p).real for p in traj]
Series(traj, op) == [i \in 1..Len(traj) |-> Re(Expect(traj[i], op))]

NoSeries == [x1 |-> <<>>, y1 |-> <<>>, z1 |-> <<>>, x2 |-> <<>>, y2 |-> <<>>, z2 |-> <<>>]

AllSeries(traj, sg) ==
    [x1 |-> Series(traj, sg.s1["x"]), y1 |-> Series(traj, sg.s1["y"]),
     z1 |-> Series(traj, sg.s1["z"]),
     x2 |-> Series(traj, sg.s2["x"]), y2 |-> Series(traj, sg.s2["y"]),
     z2 |-> Series(traj, sg.s2["z"])]

(***************************************************************************)
(* The pipeline, one action per cell and one per pass through the loop.    *)
(***************************************************************************)
Init ==
    /\ pc = "operators"
    /\ hbar \in HbarValues
    /\ J \in JValues
    /\ sigma = Unset
    /\ H = Unset
    /\ psi0 = Unset
    /\ time = Unset
    /\ psiT = Unset
    /\ series = NoSeries
    /\ plotted = Unset
    /\ err = "none"
    /\ slots = Unset

BuildOperators ==
    /\ pc = "operators"
    /\ sigma' = [s1 |-> [a \in Axes |-> Sigma1(a)], s2 |-> [a \in Axes |-> Sigma2(a)]]
    /\ pc' = "hamiltonian"
    /\ UNCHANGED <<hbar, J, H, psi0, time, psiT, series, plotted, err, slots>>

AssembleHamiltonian ==
    /\ pc = "hamiltonian"
    /\ H' = Hamiltonian(J, hbar, sigma)
    /\ pc' = "state"
    /\ UNCHANGED <<hbar, J, sigma, psi0, time, psiT, series, plotted, err, slots>>

InitState ==
    /\ pc = "state"
    /\ psi0' = KronVec(psi1, psi2)
    /\ pc' = "grid"
    /\ UNCHANGED <<hbar, J, sigma, H, time, psiT, series, plotted, err, slots>>

MakeGrid ==
    /\ pc = "grid"
    /\ time' = Linspace(NSamples)
    /\ psiT' = <<>>
    /\ slots' = [i \in 1..NSamples |-> Unset]
    /\ pc' = "loop"
    /\ UNCHANGED <<hbar, J, sigma, H, psi0, series, plotted, err>>

EvolveStep ==
    /\ pc = "loop"
    /\ hbar # 0
    /\ Len(psiT) < Len(time)
    /\ psiT' = LoopBody(psiT, time[Len(psiT) + 1])
    /\ pc' = IF Len(psiT') = Len(time) THEN "extract" ELSE "loop"
    /\ UNCHANGED <<hbar, J, sigma, H, psi0, time, series, plotted, err, slots>>

Extract ==
    /\ pc = "extract"
    /\ hbar # 0
    /\ series' = AllSeries(psiT, sigma)
    /\ pc' = "plot"
    /\ UNCHANGED <<hbar, J, sigma, H, psi0, time, psiT, plotted, err, slots>>

\* qubitPlots(time,[x1,x2],[y1,y2],[z1,z2]): one add_points call per subsystem
Plot ==
    /\ pc = "plot"
    /\ plotted' = << <<series.x1, series.y1, series.z1>>, <<series.x2, series.y2, series.z2>> >>
    /\ pc' = "done"
    /\ UNCHANGED <<hbar, J, sigma, H, psi0, time, psiT, series, err, slots>>

Next ==
    \/ BuildOperators
    \/ AssembleHamiltonian
    \/ InitState
    \/ MakeGrid
    \/ EvolveStep
    \/ Extract
    \/ Plot

Spec == Init /\ [][Next]_vars

(***************************************************************************)
(* The pipeline with hbar = 0.  numpy divides 0 by 0 without raising: every*)
(* entry of -1j*H*t/hbar is nan.  What expm does with such an argument     *)
(* depends on the scipy release: it raises ValueError, or it returns an   *)
(* array of nan.  nan then propagates through every product.               *)
(***************************************************************************)
NaN == "nan"

NaNVec == <<C(NaN, NaN), C(NaN, NaN), C(NaN, NaN), C(NaN, NaN)>>

NaNSeries(n) == [i \in 1..n |-> NaN]

InitAnyHbar ==
    /\ pc = "operators"
    /\ hbar \in HbarValues \cup {0}
    /\ J \in JValues
    /\ sigma = Unset
    /\ H = Unset
    /\ psi0 = Unset
    /\ time = Unset
    /\ psiT = Unset
    /\ series = NoSeries
    /\ plotted = Unset
    /\ err = "none"
    /\ slots = Unset

EvolveNaN ==
    /\ pc = "loop"
    /\ hbar = 0
    /\ Len(psiT) < Len(time)
    /\ \/ /\ psiT' = Append(psiT, NaNVec)
          /\ pc' = IF Len(psiT') = Len(time) THEN "extract" ELSE "loop"
          /\ err' = err
       \/ /\ err' = "ValueError"
          /\ pc' = "raised"
          /\ psiT' = psiT
    /\ UNCHANGED <<hbar, J, sigma, H, psi0, time, series, plotted, slots>>

ExtractNaN ==
    /\ pc = "extract"
    /\ hbar = 0
    /\ series' = [x1 |-> NaNSeries(Len(psiT)), y1 |-> NaNSeries(Len(psiT)),
                  z1 |-> NaNSeries(Len(psiT)), x2 |-> NaNSeries(Len(psiT)),
                  y2 |-> NaNSeries(Len(psiT)), z2 |-> NaNSeries(Len(psiT))]
    /\ pc' = "plot"
    /\ UNCHANGED <<hbar, J, sigma, H, psi0, time, psiT, plotted, err, slots>>

NextAnyHbar ==
    \/ Next
    \/ EvolveNaN
    \/ ExtractNaN

SpecAnyHbar == InitAnyHbar /\ [][NextAnyHbar]_vars

(***************************************************************************)
(* The loop's samples taken again in an arbitrary order, each result       *)
(* stored at the index of its sample.  The body of the loop is run on the  *)
(* list of the entries computed so far.                                    *)
(***************************************************************************)
Filled(sl) == SelectSeq(sl, LAMBDA v : v # Unset)

ProcessAny(i) ==
    /\ pc = "done"
    /\ slots[i] = Unset
    /\ slots' = [slots EXCEPT ![i] = LoopBody(Filled(slots), time[i])[Len(Filled(slots)) + 1]]
    /\ UNCHANGED <<pc, hbar, J, sigma, H, psi0, time, psiT, series, plotted, err>>

Reorder == \E i \in 1..NSamples : ProcessAny(i)

NextAnyOrder ==
    \/ Next
    \/ Reorder

\* one system of units is enough here: the order of the samples is what varies
InitAnyOrder == Init /\ hbar = ONE

SpecAnyOrder == InitAnyOrder /\ [][NextAnyOrder]_vars

(***************************************************************************)
(* Properties.                                                             *)
(***************************************************************************)
Near(a, b) == Abs(a - b) <= TOL

\* the norm of a 1-D array
Norm(v) == Sqrt(Re(Dot(VecConj(v), v)))

Idx == 1..4

Evolved == pc \in {"extract", "plot", "done"}

Extracted == pc \in {"plot", "done"}

Ops == {<<"x1", 1, "x">>, <<"y1", 1, "y">>, <<"z1", 1, "z">>,
        <<"x2", 2, "x">>, <<"y2", 2, "y">>, <<"z2", 2, "z">>}

\* the operator of subsystem n and axis a, once built
Op(n, a) == IF n = 1 THEN sigma.s1[a] ELSE sigma.s2[a]

\* the series named nm
Ser(nm) ==
    CASE nm = "x1" -> series.x1 [] nm = "y1" -> series.y1 [] nm = "z1" -> series.z1
      [] nm = "x2" -> series.x2 [] nm = "y2" -> series.y2 [] nm = "z2" -> series.z2

\* C1: psi0 has norm 1 and every entry of the trajectory has the norm of psi0
\* (up to TOL).
NormPreserved ==
    psiT # Unset =>
        /\ Near(Norm(psi0), ONE)
        /\ \A i \in 1..Len(psiT) : Near(Norm(psiT[i]), Norm(psi0))

NormPreservedWitness ==
    /\ pc = "done"
    /\ J = 2 * Pi
    /\ Len(psiT) = NSamples
    /\ ~Near(Re(psiT[NSamples][2]), Re(psi0[2]))

\* C2: the assembled Hamiltonian equals its conjugate transpose, entry by entry.
HamiltonianHermitian ==
    H # Unset => \A i \in Idx : \A j \in Idx : H[i][j] = Conj(H[j][i])

HamiltonianHermitianWitness ==
    /\ H # Unset
    /\ J # 0
    /\ H[2][3] # CZero
    /\ H[1][1] # CZero

Bit == {1, 2}

BasisVec(b) == <<IF b = 1 THEN COne ELSE CZero, IF b = 2 THEN COne ELSE CZero>>

Apply2(P, u) == <<CAdd(CMul(P[1][1], u[1]), CMul(P[1][2], u[2])),
                  CAdd(CMul(P[2][1], u[1]), CMul(P[2][2], u[2]))>>

\* C3: sigma1a is kron(P, identity) and sigma2a is kron(identity, P): entry
\* (2i+k, 2j+l) is P[i][j]*I[k][l], respectively I[i][j]*P[k][l]; on a product
\* vector sigma1a applies P to the first factor and sigma2a to the second.
KronStructure ==
    sigma # Unset =>
        \A a \in Axes :
            /\ \A i \in Bit : \A j \in Bit : \A k \in Bit : \A l \in Bit :
                 /\ sigma.s1[a][2 * (i - 1) + k][2 * (j - 1) + l]
                        = CMul(Pauli(a)[i][j], identity[k][l])
                 /\ sigma.s2[a][2 * (i - 1) + k][2 * (j - 1) + l]
                        = CMul(identity[i][j], Pauli(a)[k][l])
            /\ \A b \in Bit : \A c \in Bit :
                 /\ MatVec(sigma.s1[a], KronVec(BasisVec(b), BasisVec(c)))
                        = KronVec(Apply2(Pauli(a), BasisVec(b)), BasisVec(c))
                 /\ MatVec(sigma.s2[a], KronVec(BasisVec(b), BasisVec(c)))
                        = KronVec(BasisVec(b), Apply2(Pauli(a), BasisVec(c)))

KronStructureWitness ==
    /\ sigma # Unset
    /\ sigma.s1["x"] # sigma.s2["x"]
    /\ sigma.s1["y"][1][3] = Imag(-1)
    /\ sigma.s2["y"][1][2] = Imag(-1)

\* C4: at the first sample the propagator is the identity, the first entry of the
\* trajectory is psi0 and the series start at (0, 0, 1) and (1, 0, 0) (up to TOL).
FirstSample ==
    /\ (psiT # Unset /\ Len(psiT) >= 1) =>
          /\ time[1] = 0
          /\ Propagator(time[1]) = Eye4
          /\ psiT[1] = psi0
    /\ Extracted =>
          /\ Near(series.x1[1], 0) /\ Near(series.y1[1], 0) /\ Near(series.z1[1], ONE)
          /\ Near(series.x2[1], ONE) /\ Near(series.y2[1], 0) /\ Near(series.z2[1], 0)

FirstSampleWitness ==
    /\ pc = "done"
    /\ J = Pi
    /\ Len(series.z1) = NSamples
    /\ series.z1[1] > series.z1[NSamples]

\* C5: with J = 0 the Hamiltonian is the zero matrix, the propagator is the
\* identity at every sample and every series is constant.
NoCoupling ==
    J = 0 =>
        /\ H # Unset => H = Zero4
        /\ psiT # Unset => \A i \in 1..NSamples : Propagator(time[i]) = Eye4
        /\ Extracted => \A o \in Ops : \A i \in 1..NSamples : Ser(o[1])[i] = Ser(o[1])[1]

NoCouplingWitness ==
    /\ pc = "done"
    /\ J = 0
    /\ Len(series.x2) = NSamples
    /\ psiT[NSamples] = psi0
    /\ series.x2[NSamples] = series.x2[1]

\* C6: every expectation value has a negligible imaginary part, the series store
\* its real part, and that real part lies in [-1, 1] (up to TOL).
ExpectationReal ==
    /\ Evolved =>
          \A o \in Ops : \A i \in 1..NSamples :
              /\ Abs(Im(Expect(psiT[i], Op(o[2], o[3])))) <= TOL
              /\ Re(Expect(psiT[i], Op(o[2], o[3]))) <= ONE + TOL
              /\ Re(Expect(psiT[i], Op(o[2], o[3]))) >= -ONE - TOL
    /\ Extracted =>
          \A o \in Ops : \A i \in 1..NSamples :
              /\ Ser(o[1])[i] = Re(Expect(psiT[i], Op(o[2], o[3])))
              /\ Ser(o[1])[i] <= ONE + TOL
              /\ Ser(o[1])[i] >= -ONE - TOL

ExpectationRealWitness ==
    /\ pc = "done"
    /\ J = 2 * Pi
    /\ \E i \in 1..NSamples : Im(psiT[i][2]) # 0 /\ series.y1[i] < -TOL

\* C7: after the run the trajectory and the six series have the length of the
\* time grid, and entry i of each is the one computed for time[i].
Aligned ==
    pc = "done" =>
        /\ Len(time) = NSamples
        /\ Len(psiT) = Len(time)
        /\ \A o \in Ops : Len(Ser(o[1])) = Len(time)
        /\ \A i \in 1..NSamples :
              /\ psiT[i] = MatVec(Propagator(time[i]), psi0)
              /\ \A o \in Ops :
                    Ser(o[1])[i] = Re(Expect(MatVec(Propagator(time[i]), psi0), Op(o[2], o[3])))

AlignedWitness ==
    /\ pc = "done"
    /\ J = 2 * Pi
    /\ plotted # Unset
    /\ Len(psiT) = NSamples
    /\ psiT[1] # psiT[2]

AllFilled == slots # Unset /\ \A i \in 1..NSamples : slots[i] # Unset

\* C9: taking the samples in any order and storing each result at the index of
\* its sample gives the trajectory, and the series, of the loop.
OrderIndependent ==
    pc = "done" =>
        /\ \A i \in 1..NSamples : slots[i] # Unset => slots[i] = psiT[i]
        /\ AllFilled => AllSeries(slots, sigma) = series

OrderIndependentWitness ==
    /\ pc = "done"
    /\ J = 2 * Pi
    /\ slots[NSamples] # Unset
    /\ slots[2] # Unset
    /\ slots[1] = Unset
    /\ slots[NSamples] # slots[2]

\* C10: the sums x1+x2, y1+y2 and z1+z2 keep their initial values 1, 0 and 1 at
\* every sample, and with J = 2 pi the last sample has the two subsystems
\* exchanged: (x1, y1, z1) = (1, 0, 0) and (x2, y2, z2) = (0, 0, 1) (up to TOL).
TotalSpinConserved ==
    Extracted =>
        /\ \A i \in 1..NSamples :
              /\ Near(series.x1[i] + series.x2[i], series.x1[1] + series.x2[1])
              /\ Near(series.y1[i] + series.y2[i], series.y1[1] + series.y2[1])
              /\ Near(series.z1[i] + series.z2[i], series.z1[1] + series.z2[1])
              /\ Near(series.x1[i] + series.x2[i], ONE)
              /\ Near(series.y1[i] + series.y2[i], 0)
              /\ Near(series.z1[i] + series.z2[i], ONE)
        /\ J = 2 * Pi =>
              /\ Near(series.x1[NSamples], ONE) /\ Near(series.y1[NSamples], 0)
              /\ Near(series.z1[NSamples], 0)
              /\ Near(series.x2[NSamples], 0) /\ Near(series.y2[NSamples], 0)
              /\ Near(series.z2[NSamples], ONE)

TotalSpinConservedWitness ==
    /\ pc = "plot"
    /\ J = 2 * Pi
    /\ \E i \in 2..(NSamples - 1) :
          /\ series.x2[i] > TOL /\ series.x2[i] < ONE - TOL
          /\ series.z2[i] > TOL /\ series.z2[i] < ONE - TOL

====
